---- MODULE Spec2Model ----
(***************************************************************************)
(* Multithreaded Gaussian blur (src/main.cpp).                             *)
(*                                                                         *)
(* main reads a 24-bit BMP, builds a Gaussian kernel for the requested     *)
(* radius, splits the flat pixel index space into 4 ranges, runs           *)
(* apply_blur on each range in its own pthread, joins the 4 threads and    *)
(* writes the destination buffer to output.bmp.                            *)
(*                                                                         *)
(* Numbers.  A C++ double is modelled as a fixed-point integer, the value  *)
(* times Scale, with every product and quotient rounded to the nearest     *)
(* representable value, as the operations on doubles are.                  *)
(* A NaN is the value NaN below.  A C++ int is a 32-bit two's-complement   *)
(* integer (Add32, Times3, CDiv).  A pixel is <<red, green, blue>>, each a *)
(* uint8_t.                                                                *)
(***************************************************************************)
EXTENDS Integers, Sequences, FiniteSets, TLC

\* ------------------------------------------------------------- bounds
\* Largest biWidth / biHeight of an image whose pixels are modelled one by one.
MaxWidth == 3
MaxHeight == 3
\* Largest blur radius given on the command line.
MaxRadius == 2
\* Largest number of pixels missing at the end of the file's pixel data.
MaxShort == 1
\* Largest biHeight and largest radius of the runs checked under fairness.
MaxFairHeight == 2
MaxFairRadius == 1

\* -------------------------------------------------- program constants
\* thread1 .. thread4
NumThreads == 4
\* the largest value of an int
MaxInt == 2147483647
\* M_PI, times Scale
Pi == 3141593
\* the largest value of a uint8_t
MaxByte == 255

MinInt == -MaxInt - 1
Threads == 1..NumThreads

\* ------------------------------------------------ 32-bit int arithmetic
\* a + b in a 32-bit register: the sum modulo 2^32, read as a signed value.
Add32(a, b) ==
    IF a >= 0 /\ b >= 0
    THEN IF a > MaxInt - b THEN (a + MinInt) + (b + MinInt) ELSE a + b
    ELSE IF a < 0 /\ b < 0
         THEN IF a < MinInt - b THEN (a - MinInt) + (b - MinInt) ELSE a + b
         ELSE a + b

\* 3 * v in a 32-bit register.
Times3(v) == Add32(Add32(v, v), v)

\* TRUE iff the mathematical product a * b (a, b >= 0) does not fit an int.
MulOverflows(a, b) == a > 0 /\ b > MaxInt \div a

\* a / b of C++ for b > 0: the quotient truncated toward zero.
CDiv(a, b) ==
    IF a % b = 0 \/ a >= 0 THEN a \div b ELSE (a \div b) + 1

\* ------------------------------------------------ fixed-point doubles
Kilo == 10 * 10 * 10
Scale == Kilo * Kilo
\* The result of 0.0 / 0.0 and of every operation on it.
NaN == MinInt
IsNaN(v) == v = NaN

\* a * b of two non-negative doubles whose values are x and y: x * y / Scale
\* rounded to the nearest representable value, as every operation on a double
\* is, computed on the halves of x and y so that no intermediate exceeds 32
\* bits.
FMulValues(x, y) ==
    LET xh == x \div Kilo
        xl == x % Kilo
        yh == y \div Kilo
        yl == y % Kilo
    IN  xh * yh + ((xh * yl + xl * yh + ((xl * yl + 500 * Kilo) \div Kilo)) \div Kilo)

\* a * b, each operand evaluated once.
FMul(a, b) == CHOOSE p \in {FMulValues(x, y) : x \in {a}, y \in {b}} : TRUE

\* 10^n for n in 0..6.
Pow10(n) ==
    IF n = 0 THEN 1
    ELSE IF n = 1 THEN 10
    ELSE IF n = 2 THEN 100
    ELSE IF n = 3 THEN Kilo
    ELSE IF n = 4 THEN 10 * Kilo
    ELSE IF n = 5 THEN 100 * Kilo
    ELSE Scale

\* The n leading decimal digits of rem / b (rem < b), as an integer.
RECURSIVE FDivDigits(_, _, _)
FDivDigits(rem, b, n) ==
    IF n = 0 THEN 0
    ELSE CHOOSE q \in {((v \div b) * Pow10(n - 1)) + FDivDigits(v % b, b, n - 1) :
                          v \in {rem * 10}} : TRUE

\* x / y of two doubles, x >= 0, y > 0: x * Scale / y rounded to the nearest
\* representable value, by long division to one digit more than is kept.
FDivValues(x, y) ==
    ((x \div y) * 10 * Scale + FDivDigits(x % y, y, 7) + 5) \div 10

\* a / b, each operand evaluated once.
FDiv(a, b) == CHOOSE q \in {FDivValues(x, y) : x \in {a}, y \in {b}} : TRUE

\* The Taylor series of exp(-u) to the term u^last / last!, in Horner form:
\* 1 - (u/n) * (1 - (u/(n+1)) * (1 - ...)), from factor n on.
RECURSIVE ExpSeries(_, _, _)
ExpSeries(u, n, last) ==
    IF n > last THEN Scale
    ELSE Scale - (FMul(u, ExpSeries(u, n + 1, last)) \div n)

\* v * v
Square(v) == CHOOSE p \in {FMulValues(x, x) : x \in {v}} : TRUE

\* exp(-y) for a double y >= 0: exp(-y/16) by its Taylor series, raised to
\* the 16th power by squaring four times.
ExpNeg(y) ==
    CHOOSE e \in {Square(Square(Square(Square(ExpSeries(u, 1, 10))))) :
                     u \in {y \div 16}} : TRUE

\* ------------------------------------------------------------ gaussian
\* gaussian(x, y, sigma):
\*   (1.0 / (2.0 * M_PI * sigma * sigma)) * exp(-(x*x + y*y) / (2 * sigma * sigma))
\* With sigma = 0 the first factor is 1.0/0.0 = inf and the exponent is
\* 0/0.0 = NaN, so the product is NaN.
gaussian(x, y, sigma) ==
    IF sigma = 0 THEN NaN
    ELSE FMul(FDiv(Scale, FMul(FMul(FMul(2 * Scale, Pi), sigma), sigma)),
              ExpNeg(FDiv((x * x + y * y) * Scale, FMul(2 * sigma, sigma))))

\* A faulty sigma: radius / 3, the division done on ints.
SigmaOfIntDiv(radius) == (radius \div 3) * Scale
\* double sigma = radius / 3.0
SigmaOf(radius) == (radius * Scale) \div 3

\* The sequence s with every element evaluated.
Materialize(s) == s \o <<>>

\* x + y of two doubles; a NaN makes the sum NaN.
AddValues(x, y) == IF IsNaN(x) \/ IsNaN(y) THEN NaN ELSE x + y

\* acc + s[k] + s[k+1] + ... for a sequence s of doubles.
RECURSIVE SumAcc(_, _, _)
SumAcc(s, k, acc) ==
    IF k > Len(s) THEN acc
    ELSE CHOOSE r \in {SumAcc(s, kk, a) :
                          kk \in {k + 1}, a \in {AddValues(acc, s[k])}} : TRUE

\* sum += value over a sequence of doubles.
SumSeq(s) == CHOOSE r \in {SumAcc(t, 1, 0) : t \in {Materialize(s)}} : TRUE

\* The values the first loop nest stores: kernel[i + radius][j + radius].
RawKernel(radius) ==
    Materialize(
        [i \in 1..(2 * radius + 1) |->
            Materialize(
                [j \in 1..(2 * radius + 1) |->
                    gaussian(i - 1 - radius, j - 1 - radius, SigmaOf(radius))])])

\* sum, after the first loop nest.
KernelSum(raw) == SumSeq([i \in DOMAIN raw |-> SumSeq(raw[i])])

\* A faulty second loop nest: the entries are left as they are.
NormalizeNoDivide(value, sum) == value
\* kernel[i][j] /= sum
Normalize(value, sum) ==
    IF IsNaN(value) \/ IsNaN(sum) THEN NaN ELSE FDiv(value, sum)

\* The second loop nest: every entry of raw divided by sum.
NormalizeAll(raw, sum) ==
    Materialize(
        [i \in DOMAIN raw |->
            Materialize([j \in DOMAIN raw |-> Normalize(raw[i][j], sum)])])

\* The kernel made of the values raw of the first loop nest.
KernelOfRaw(raw) ==
    CHOOSE ker \in {NormalizeAll(raw, sum) : sum \in {KernelSum(raw)}} : TRUE

\* gen_gaussian_kernel(radius), radius >= 0: rows and columns are 1-based
\* here, so kernel[r + radius][c + radius] of the code is
\* kernel[r + radius + 1][c + radius + 1].
gen_gaussian_kernel(radius) ==
    CHOOSE ker \in {KernelOfRaw(raw) : raw \in {RawKernel(radius)}} : TRUE

\* vector<vector<double>> kernel(kernel_size, ...) with kernel_size =
\* 2 * radius + 1 < 0 asks for more than max_size() elements and throws
\* std::length_error, which nothing catches.
KernelThrows(radius) == 2 * radius + 1 < 0

\* ------------------------------------------------------------ the state
VARIABLES
    pc,             \* where main is
    radius,         \* atoi(argv[2])
    width,          \* header.biWidth
    height,         \* header.biHeight
    file,           \* the pixels the file holds after bfOffBits, padding removed
    nanByte,        \* what this build's double -> uint8_t conversion makes of NaN
    heap,           \* image / blurred: "none", "live" or "freed"
    image,          \* the source buffer, indexed from 0
    blurred_image,  \* the destination buffer, indexed from 0
    kernel,         \* the kernel main built
    params,         \* params1 .. params4: start and end
    thr,            \* each thread: "none", "running" or "exited"
    idx,            \* each thread's loop variable i
    created,        \* how many pthread_create calls main has made
    joined,         \* how many pthread_join calls have returned
    wlog,           \* history: for each destination index, the threads that wrote it
    output          \* what save_image wrote to output.bmp

vars == <<pc, radius, width, height, file, nanByte, heap, image, blurred_image,
          kernel, params, thr, idx, created, joined, wlog, output>>

\* ------------------------------------------------------------ inputs
\* Pixel values of the input images.
Black == <<0, 0, 0>>
Red == <<255, 0, 0>>
Tint == <<255, 100, 7>>
\* The input images of w x h pixels, each <<hot, a, b>>: colour a at pixel
\* hot and colour b elsewhere.  Two uniform images, one red pixel in the
\* middle of a black image, and one red pixel at the end of the first row
\* of a tinted image.
Patterns(w, h) ==
    {<<0, Black, Black>>, <<0, Tint, Tint>>, <<(w * h) \div 2, Red, Black>>,
     <<IF w = 0 THEN 0 ELSE w - 1, Red, Tint>>}
\* What malloc'ed memory may hold before it is written.
GarbagePixels == {<<0, 0, 0>>, <<171, 171, 171>>}
\* What a conversion of NaN to uint8_t (undefined behaviour) may yield.
NaNBytes == {0, MaxByte}
\* atoi(argv[2]): a negative radius, zero, and the valid ones.
RadiusInputs == {-1} \cup (0..MaxRadius)

Pixels(w, h) == 0..(w * h - 1)
NoRange == [start |-> 0, end |-> 0]

\* ------------------------------------------------------------ partition
\* The sizes modelled keep width * height within an int (46340 * 46340 is the
\* largest), so that product is exact.  3 * width * height overflows an int
\* for width * height > MaxInt / 3; signed overflow is undefined: the usual
\* build wraps, a build with -ftrapv traps.
OverflowOutcomes(w, h) ==
    IF MulOverflows(3, w * h) THEN {"wrap", "trap"} ELSE {"wrap"}

\* width * height
Total(w, h) == w * h
\* A faulty first boundary: the quotient rounded up.
Bound1RoundUp(w, h) == CDiv(Total(w, h) + 3, 4)
\* width * height / 4
Bound1(w, h) == CDiv(Total(w, h), 4)
\* A faulty second boundary: twice the first, the ranges cut into equal chunks.
Bound2TwiceQuarter(w, h) == 2 * CDiv(Total(w, h), 4)
\* width * height / 2
Bound2(w, h) == CDiv(Total(w, h), 2)
\* 3 * width * height / 4: the low 32 bits of (3 * width) * height are those
\* of 3 * (width * height).
Bound3(w, h) == CDiv(Times3(Total(w, h)), 4)

\* A faulty last range: it stops one pixel short of width * height.
ParamsOfShortLast(w, h) ==
    [t \in Threads |->
        IF t = 1 THEN [start |-> 0, end |-> Bound1(w, h)]
        ELSE IF t = 2 THEN [start |-> Bound1(w, h), end |-> Bound2(w, h)]
        ELSE IF t = 3 THEN [start |-> Bound2(w, h), end |-> Bound3(w, h)]
        ELSE [start |-> Bound3(w, h), end |-> Total(w, h) - 1]]
\* The start and end of params1 .. params4.
ParamsOf(w, h) ==
    [t \in Threads |->
        IF t = 1 THEN [start |-> 0, end |-> Bound1(w, h)]
        ELSE IF t = 2 THEN [start |-> Bound1(w, h), end |-> Bound2(w, h)]
        ELSE IF t = 3 THEN [start |-> Bound2(w, h), end |-> Bound3(w, h)]
        ELSE [start |-> Bound3(w, h), end |-> Total(w, h)]]

\* ------------------------------------------------------------ apply_blur
\* A faulty test: the column is not checked.
OutsideNoColumnCheck(x, y, c, r, w, h) == y + r < 0 \/ y + r >= h
\* The test that makes the loop body `continue`.
Outside(x, y, c, r, w, h) ==
    x + c < 0 \/ x + c >= w \/ y + r < 0 \/ y + r >= h

\* A faulty accumulation: the weighted sample is added twice.
AddSampleTwice(acc, channel, weight) ==
    IF IsNaN(acc) \/ IsNaN(weight) THEN NaN ELSE acc + 2 * channel * weight
\* acc += channel * weight
AddSample(acc, channel, weight) ==
    IF IsNaN(acc) \/ IsNaN(weight) THEN NaN ELSE acc + channel * weight

\* red += pixel->red * weight, and the same for green and blue.
AddSamples(acc, pixel, weight) ==
    <<AddSample(acc[1], pixel[1], weight),
      AddSample(acc[2], pixel[2], weight),
      AddSample(acc[3], pixel[3], weight)>>

\* The two inner loops for pixel i run side * side iterations, numbered k
\* from 0, r outermost.  <<red, green, blue>> after them, given their values
\* acc before iteration k.
RECURSIVE Accumulate(_, _, _, _, _, _, _)
Accumulate(img, ker, w, h, i, k, acc) ==
    LET side == Len(ker)
        rad == side \div 2
        r == (k \div side) - rad
        c == (k % side) - rad
        x == i % w
        y == i \div w
    IN  IF k >= side * side THEN acc
        ELSE CHOOSE sums \in
                 {Accumulate(img, ker, w, h, i, kk, next) :
                  kk \in {k + 1},
                  next \in {IF Outside(x, y, c, r, w, h) THEN acc
                            ELSE AddSamples(acc, img[(y + r) * w + (x + c)],
                                            ker[r + rad + 1][c + rad + 1])}} : TRUE

\* A faulty store: the double is rounded to the nearest byte.
NarrowRound(v, nb) ==
    IF IsNaN(v) THEN nb ELSE ((v + Scale \div 2) \div Scale) % (MaxByte + 1)
\* blurred_pixel->red = red: a double stored to a uint8_t.  The fraction is
\* dropped; a NaN has no defined result.
Narrow(v, nb) ==
    IF IsNaN(v) THEN nb ELSE (v \div Scale) % (MaxByte + 1)

\* The pixel one iteration of the outer loop stores at blurred_image + i.
BlurPixel(img, ker, w, h, i, nb) ==
    CHOOSE pixel \in
        {<<Narrow(acc[1], nb), Narrow(acc[2], nb), Narrow(acc[3], nb)>> :
         acc \in {Accumulate(img, ker, w, h, i, 0, <<0, 0, 0>>)}} : TRUE

\* Pixel *image = blur_params->image: the buffer the samples are read from.
SourceBuffer == image

\* A faulty loop test: i <= blur_params->end.
LoopCondInclusive(t) == idx[t] <= params[t].end
\* i < blur_params->end
LoopCond(t) == idx[t] < params[t].end
\* i++
NextIdx(i) == i + 1

\* One iteration of the outer loop of thread t.
ApplyBlurPixel(t) ==
    /\ thr[t] = "running"
    /\ LoopCond(t)
    /\ blurred_image' =
          [blurred_image EXCEPT
              ![idx[t]] = BlurPixel(SourceBuffer, kernel, width, height, idx[t], nanByte)]
    /\ wlog' = [wlog EXCEPT ![idx[t]] = Append(@, t)]
    /\ idx' = [idx EXCEPT ![t] = NextIdx(@)]
    /\ UNCHANGED <<pc, radius, width, height, file, nanByte, heap, image, kernel,
                   params, thr, created, joined, output>>

\* The loop is over: pthread_exit(0).
PthreadExit(t) ==
    /\ thr[t] = "running"
    /\ ~LoopCond(t)
    /\ thr' = [thr EXCEPT ![t] = "exited"]
    /\ UNCHANGED <<pc, radius, width, height, file, nanByte, heap, image,
                   blurred_image, kernel, params, idx, created, joined, wlog, output>>

\* ------------------------------------------------------------ main
\* The image the file holds: colour a at pixel hot, colour b elsewhere, the
\* last short pixels missing.
FileOf(w, h, hot, a, b, short) ==
    [k \in 1..(w * h - short) |-> IF k - 1 = hot THEN a ELSE b]

\* main has read the header and the radius.
InitState(w, h, r, pat, short, nb) ==
    /\ short <= w * h
    /\ pc = "load"
    /\ radius = r
    /\ width = w
    /\ height = h
    /\ file = FileOf(w, h, pat[1], pat[2], pat[3], short)
    /\ nanByte = nb
    /\ heap = [image |-> "none", blurred |-> "none"]
    /\ image = <<>>
    /\ blurred_image = <<>>
    /\ kernel = <<>>
    /\ params = [t \in Threads |-> NoRange]
    /\ thr = [t \in Threads |-> "none"]
    /\ idx = [t \in Threads |-> 0]
    /\ created = 0
    /\ joined = 0
    /\ wlog = <<>>
    /\ output = <<>>

Init ==
    \E w \in 0..MaxWidth, h \in 0..MaxHeight, r \in RadiusInputs,
       short \in 0..MaxShort :
      \E pat \in Patterns(w, h), nb \in (IF r = 0 THEN NaNBytes ELSE {0}) :
        InitState(w, h, r, pat, short, nb)

\* image = malloc(...); load_image(file, header, image): the rows the file
\* holds are copied, a read past the end of the file copies nothing and
\* the rest of the buffer keeps what malloc left there.
LoadImage ==
    /\ pc = "load"
    /\ \E g \in GarbagePixels :
          image' = [i \in Pixels(width, height) |->
                       IF i < Len(file) THEN file[i + 1] ELSE g]
    /\ heap' = [heap EXCEPT !.image = "live"]
    /\ pc' = "kernel"
    /\ UNCHANGED <<radius, width, height, file, nanByte, blurred_image, kernel,
                   params, thr, idx, created, joined, wlog, output>>

\* auto kernel = gen_gaussian_kernel(radius)
GenKernel ==
    /\ pc = "kernel"
    /\ IF KernelThrows(radius)
       THEN pc' = "aborted" /\ UNCHANGED kernel
       ELSE pc' = "alloc" /\ kernel' = gen_gaussian_kernel(radius)
    /\ UNCHANGED <<radius, width, height, file, nanByte, heap, image,
                   blurred_image, params, thr, idx, created, joined, wlog, output>>

\* blurred_image = malloc(...)
AllocBlurred ==
    /\ pc = "alloc"
    /\ \E g \in GarbagePixels :
          blurred_image' = [i \in Pixels(width, height) |-> g]
    /\ wlog' = [i \in Pixels(width, height) |-> <<>>]
    /\ heap' = [heap EXCEPT !.blurred = "live"]
    /\ pc' = "params"
    /\ UNCHANGED <<radius, width, height, file, nanByte, image, kernel, params,
                   thr, idx, created, joined, output>>

\* BlurParams params1 = ... params4 = ...
BuildParams ==
    /\ pc = "params"
    /\ \E o \in OverflowOutcomes(width, height) :
          IF o = "trap"
          THEN pc' = "aborted" /\ UNCHANGED params
          ELSE pc' = "create" /\ params' = ParamsOf(width, height)
    /\ UNCHANGED <<radius, width, height, file, nanByte, heap, image,
                   blurred_image, kernel, thr, idx, created, joined, wlog, output>>

\* pthread_create(&thread_t, &attr, apply_blur, &params_t), in the order
\* thread1 .. thread4.  The new thread starts its loop at params_t.start.
PthreadCreate(t) ==
    /\ pc = "create"
    /\ t = created + 1
    /\ thr' = [thr EXCEPT ![t] = "running"]
    /\ idx' = [idx EXCEPT ![t] = params[t].start]
    /\ created' = t
    /\ pc' = IF t = NumThreads THEN "join" ELSE "create"
    /\ UNCHANGED <<radius, width, height, file, nanByte, heap, image,
                   blurred_image, kernel, params, joined, wlog, output>>

\* Faulty joins: one that returns at once, one that waits on a thread that
\* was never created.
JoinReadyNoWait(t) == TRUE
JoinReadyWrongHandle(t) == thr[t] = "none"
\* pthread_join(thread_t, NULL) returns once thread t has exited.
JoinReady(t) == thr[t] = "exited"

PthreadJoin(t) ==
    /\ pc = "join"
    /\ t = joined + 1
    /\ JoinReady(t)
    /\ joined' = t
    /\ pc' = IF t = NumThreads THEN "save" ELSE "join"
    /\ UNCHANGED <<radius, width, height, file, nanByte, heap, image,
                   blurred_image, kernel, params, thr, idx, created, wlog, output>>

\* The padding bytes save_image writes after each row.
Padding(w) == (4 - ((w * 3) % 4)) % 4

\* save_image(output_file, header, blurred_image): the header's size, then
\* each row of the buffer and its padding.
SaveImage ==
    /\ pc = "save"
    /\ output' = [w |-> width, h |-> height, pad |-> Padding(width),
                  rows |-> [y \in 1..height |->
                              [x \in 1..width |->
                                  blurred_image[(y - 1) * width + (x - 1)]]]]
    /\ pc' = "free"
    /\ UNCHANGED <<radius, width, height, file, nanByte, heap, image,
                   blurred_image, kernel, params, thr, idx, created, joined, wlog>>

\* free(image); free(blurred_image); return 0
FreeBuffers ==
    /\ pc = "free"
    /\ heap' = [image |-> "freed", blurred |-> "freed"]
    /\ pc' = "done"
    /\ UNCHANGED <<radius, width, height, file, nanByte, image, blurred_image,
                   kernel, params, thr, idx, created, joined, wlog, output>>

MainStep ==
    \/ LoadImage
    \/ GenKernel
    \/ AllocBlurred
    \/ BuildParams
    \/ \E t \in Threads : PthreadCreate(t)
    \/ \E t \in Threads : PthreadJoin(t)
    \/ SaveImage
    \/ FreeBuffers

WorkerStep(t) == ApplyBlurPixel(t) \/ PthreadExit(t)

Next ==
    \/ LoadImage
    \/ GenKernel
    \/ AllocBlurred
    \/ BuildParams
    \/ \E t \in Threads : PthreadCreate(t)
    \/ \E t \in Threads : PthreadJoin(t)
    \/ SaveImage
    \/ FreeBuffers
    \/ \E t \in Threads : ApplyBlurPixel(t)
    \/ \E t \in Threads : PthreadExit(t)

Spec == Init /\ [][Next]_vars

\* The runs on well-formed input: a radius of at least 1 and a file that
\* holds the whole image.
WellFormedInit ==
    \E w \in 0..MaxWidth, h \in 0..MaxFairHeight, r \in 1..MaxFairRadius :
        InitState(w, h, r, <<0, Tint, Tint>>, 0, 0)

\* The threads are scheduled fairly, and so is main.
FairSpec ==
    /\ WellFormedInit
    /\ [][Next]_vars
    /\ WF_vars(MainStep)
    /\ \A t \in Threads : WF_vars(WorkerStep(t))

\* -------------------------------------------- the partition on its own
\* Widths and heights of images too large to model pixel by pixel; every
\* product of two of them fits an int.
LargeSides == {1000, 26755, 30000, 46340}

\* main at the lines that build params1 .. params4, for an image of any of
\* these sizes; what the partition does not read is left out.
PartInit ==
    \E w \in (0..MaxWidth) \cup LargeSides, h \in (0..MaxHeight) \cup LargeSides :
        /\ pc = "params"
        /\ radius = 1
        /\ width = w
        /\ height = h
        /\ file = <<>>
        /\ nanByte = 0
        /\ heap = [image |-> "live", blurred |-> "live"]
        /\ image = <<>>
        /\ blurred_image = <<>>
        /\ kernel = <<>>
        /\ params = [t \in Threads |-> NoRange]
        /\ thr = [t \in Threads |-> "none"]
        /\ idx = [t \in Threads |-> 0]
        /\ created = 0
        /\ joined = 0
        /\ wlog = <<>>
        /\ output = <<>>

PartSpec == PartInit /\ [][BuildParams]_vars

\* ============================================================ properties
\* main has passed the four joins.
Joined == pc \in {"save", "free", "done"}
\* params1 .. params4 have been built.
ParamsBuilt == pc \in {"create", "join", "save", "free", "done"}
\* The threads whose loop visits index i.
OwnersOf(i) == {t \in Threads : params[t].start <= i /\ i < params[t].end}
\* Where the number of owners can change: the ends of the buffer and of the ranges.
ProbeIndices ==
    {i \in {0, width * height - 1}
           \cup {params[t].start : t \in Threads}
           \cup {params[t].end : t \in Threads}
           \cup {params[t].end - 1 : t \in Threads} :
        0 <= i /\ i < width * height}
EmptyRange(t) == params[t].start >= params[t].end
RangeLen(t) == IF EmptyRange(t) THEN 0 ELSE params[t].end - params[t].start
DisjointRanges(s, t) ==
    \/ EmptyRange(s)
    \/ EmptyRange(t)
    \/ params[s].end <= params[t].start
    \/ params[t].end <= params[s].start

\* C1: every destination index in [0, width*height) is written exactly once
\* and by exactly one worker: it lies in the range of exactly one thread, no
\* index is ever written twice, and after the joins each has been written once.
C1_WrittenOnceByOneWorker ==
    /\ ParamsBuilt => \A i \in ProbeIndices : Cardinality(OwnersOf(i)) = 1
    /\ \A i \in DOMAIN wlog : Len(wlog[i]) <= 1
    /\ Joined => \A i \in DOMAIN wlog : Len(wlog[i]) = 1

\* C2: the four ranges [start, end) are pairwise disjoint and their union is
\* exactly [0, width*height): disjoint, inside the buffer, and width*height
\* indices in all.
C2_PartitionExact ==
    ParamsBuilt =>
        /\ \A s \in Threads, t \in Threads : s # t => DisjointRanges(s, t)
        /\ \A t \in Threads :
              EmptyRange(t) \/ (0 <= params[t].start /\ params[t].end <= width * height)
        /\ RangeLen(1) + RangeLen(2) + RangeLen(3) + RangeLen(4) = width * height

\* C3: when save_image is about to run, every worker has exited, none can
\* take another step, and every destination index has been written.
C3_SaveAfterWorkers ==
    pc = "save" =>
        /\ \A t \in Threads : thr[t] = "exited" /\ ~ENABLED ApplyBlurPixel(t)
        /\ \A i \in Pixels(width, height) : wlog[i] # <<>>
C3_Witness ==
    /\ pc = "save"
    /\ width * height >= NumThreads
    /\ \A t \in Threads : ~EmptyRange(t)

\* C4: a radius of zero or less is rejected before the kernel is built: the
\* program does not crash, builds no kernel, starts no worker and writes no
\* output.
C4_InvalidRadiusRejected ==
    radius <= 0 =>
        /\ pc # "aborted"
        /\ kernel = <<>>
        /\ created = 0
        /\ output = <<>>

\* Every pixel of the source buffer has the same colour.
Uniform == \A i \in DOMAIN image, j \in DOMAIN image : image[i] = image[j]
\* The whole (2*radius+1)^2 window of pixel i lies inside the image.
FullWindow(i) ==
    /\ radius <= i % width
    /\ (i % width) + radius < width
    /\ radius <= i \div width
    /\ (i \div width) + radius < height

\* C5 as stated: after the blur of a uniform image with radius >= 1 the
\* destination buffer is identical to the source.
C5_UniformUnchanged ==
    (Joined /\ radius >= 1 /\ Uniform) => blurred_image = image

\* C5 as amended: after the blur of a uniform image with radius >= 1 no
\* destination channel exceeds the source's, a zero channel stays zero, and
\* a pixel whose whole window lies inside the image loses at most 1.
C5_UniformNeverBrighter ==
    (Joined /\ radius >= 1 /\ Uniform) =>
        \A i \in DOMAIN image, ch \in 1..3 :
            /\ blurred_image[i][ch] <= image[i][ch]
            /\ image[i][ch] = 0 => blurred_image[i][ch] = 0
            /\ FullWindow(i) => blurred_image[i][ch] >= image[i][ch] - 1
C5_Witness ==
    /\ Joined
    /\ radius >= 1
    /\ Uniform
    /\ \E i \in DOMAIN image : FullWindow(i) /\ image[i] = Tint
    /\ \E i \in DOMAIN image : ~FullWindow(i) /\ blurred_image[i] # image[i]

\* The term offset number k (rows of the kernel first) adds to channel ch of
\* pixel i: weight times sample when the sample lies inside the image, and
\* nothing otherwise.
ConvTerm(i, k, ch) ==
    LET side == 2 * radius + 1
        r == ((k - 1) \div side) - radius
        c == ((k - 1) % side) - radius
        x == i % width
        y == i \div width
    IN  IF 0 <= x + c /\ x + c < width /\ 0 <= y + r /\ y + r < height
        THEN IF IsNaN(kernel[r + radius + 1][c + radius + 1]) THEN NaN
             ELSE kernel[r + radius + 1][c + radius + 1]
                      * image[(y + r) * width + (x + c)][ch]
        ELSE 0
ConvSum(i, ch) ==
    SumSeq([k \in 1..((2 * radius + 1) * (2 * radius + 1)) |-> ConvTerm(i, k, ch)])
\* The integer part of a sum (this build's byte for a NaN).
Truncated(v) == IF IsNaN(v) THEN nanByte ELSE v \div Scale
\* A 3x3 black image with a red pixel in the middle, blurred with radius 1.
Impulse3x3 ==
    /\ width = 3
    /\ height = 3
    /\ radius = 1
    /\ image = [i \in 0..8 |-> IF i = 4 THEN Red ELSE Black]

\* C6: after the blur each channel of destination[i] is the truncated sum of
\* weight times sample over the offsets whose sample lies inside the image;
\* for the 3x3 impulse each red value is trunc(255 * the weight of the
\* offset from the pixel to the centre).
C6_ConvolutionExact ==
    Joined =>
        /\ \A i \in Pixels(width, height), ch \in 1..3 :
              blurred_image[i][ch] = Truncated(ConvSum(i, ch))
        /\ Impulse3x3 =>
              \A i \in 0..8 :
                  blurred_image[i] =
                      <<(255 * kernel[(1 - (i \div 3)) + 2][(1 - (i % 3)) + 2]) \div Scale,
                        0, 0>>
C6_Witness ==
    /\ Joined
    /\ Impulse3x3
    /\ blurred_image[4][1] > blurred_image[1][1]
    /\ blurred_image[1][1] > blurred_image[0][1]

\* What one sequential pass of the worker loop over [0, width*height) leaves
\* in the buffer buf, from index i on.
RECURSIVE SequentialPass(_, _)
SequentialPass(buf, i) ==
    IF i >= width * height THEN buf
    ELSE SequentialPass(
             [buf EXCEPT ![i] = BlurPixel(image, kernel, width, height, i, nanByte)],
             i + 1)

\* C7: whatever the interleaving, the destination buffer after the joins is
\* the one a single sequential pass over [0, width*height) produces.
C7_ScheduleIndependent ==
    Joined => blurred_image = SequentialPass([i \in Pixels(width, height) |-> Black], 0)
C7_Witness ==
    /\ Joined
    /\ radius >= 1
    /\ width * height > NumThreads
    /\ \E i \in DOMAIN image, j \in DOMAIN image : blurred_image[i] # blurred_image[j]

\* C8: when the file does not hold width*height pixels the blur is rejected:
\* no worker is started and no output is written.
C8_DimensionMismatchRejected ==
    Len(file) # width * height => (created = 0 /\ output = <<>>)

\* The input is well formed: a full image and a radius of at least 1.
WellFormed == radius >= 1 /\ Len(file) = width * height

\* C9: on well-formed input and under fair scheduling every started worker
\* exits, main passes the four joins and reaches save_image, and no state
\* short of the end of the program is stuck.
C9_WorkersTerminate ==
    /\ \A t \in Threads : (WellFormed /\ thr[t] = "running") ~> (thr[t] = "exited")
    /\ (WellFormed /\ pc = "create") ~> (pc = "save")
    /\ [](pc = "done" \/ ENABLED Next)
C9_Witness ==
    /\ WellFormed
    /\ pc = "save"
    /\ joined = NumThreads
    /\ \A t \in Threads : idx[t] = params[t].end /\ idx[t] > params[t].start

\* The sum of all entries of the kernel.
KernelTotal == SumSeq([i \in 1..Len(kernel) |-> SumSeq(kernel[i])])
\* Each of the (2*radius+1)^2 quotients is rounded by less than one unit
\* of the fixed-point scale.
KernelTolerance == (2 * radius + 1) * (2 * radius + 1)

\* C10: for radius >= 1 the kernel has 2*radius+1 rows of 2*radius+1
\* entries, none negative, which sum to 1.0 within the tolerance.
C10_KernelNormalized ==
    (radius >= 1 /\ kernel # <<>>) =>
        /\ Len(kernel) = 2 * radius + 1
        /\ \A i \in 1..Len(kernel) :
              /\ Len(kernel[i]) = 2 * radius + 1
              /\ \A j \in 1..Len(kernel[i]) : kernel[i][j] >= 0
        /\ KernelTotal <= Scale + KernelTolerance
        /\ KernelTotal >= Scale - KernelTolerance
C10_Witness ==
    /\ radius = MaxRadius
    /\ kernel # <<>>
    /\ kernel[radius + 1][radius + 1] > kernel[1][1]

\* C11 as stated: when width*height is not a multiple of 4, the first three
\* ranges hold floor(T/4) indices each and the fourth holds floor(T/4) plus
\* the remainder T mod 4.
C11_LastAbsorbsRemainder ==
    (ParamsBuilt /\ (width * height) % 4 # 0) =>
        /\ \A t \in 1..3 : RangeLen(t) = (width * height) \div 4
        /\ RangeLen(4) = ((width * height) \div 4) + ((width * height) % 4)

\* C11 as amended: the ranges are cut at the boundaries floor(k*T/4).  The
\* first holds floor(T/4) indices and the second floor(T/2) - floor(T/4);
\* when 3*T fits an int the third holds floor(3T/4) - floor(T/2) and the
\* fourth T - floor(3T/4), so every range holds floor(T/4) or one more and
\* the fourth holds one more whenever T is not a multiple of 4.
C11_SizesFollowBoundaries ==
    ParamsBuilt =>
        /\ RangeLen(1) = (width * height) \div 4
        /\ RangeLen(2) = ((width * height) \div 2) - ((width * height) \div 4)
        /\ IF MulOverflows(3, width * height) THEN TRUE
           ELSE /\ RangeLen(3) =
                       ((3 * width * height) \div 4) - ((width * height) \div 2)
                /\ RangeLen(4) = (width * height) - ((3 * width * height) \div 4)
                /\ \A t \in Threads :
                      RangeLen(t) \in {(width * height) \div 4,
                                       ((width * height) \div 4) + 1}
                /\ (width * height) % 4 # 0 =>
                      RangeLen(4) = ((width * height) \div 4) + 1
C11_Witness ==
    /\ ParamsBuilt
    /\ (width * height) % 4 = 2
    /\ width * height > NumThreads
    /\ RangeLen(2) = RangeLen(1) + 1
    /\ RangeLen(3) = RangeLen(1)
    /\ RangeLen(4) = RangeLen(1) + 1

\* floor(k*T/4), computed without forming k*T.
ExactBound(k, T) == k * (T \div 4) + ((k * (T % 4)) \div 4)
\* The five boundaries main built: the start of params1 and the four ends.
BuiltBounds ==
    <<params[1].start, params[1].end, params[2].end, params[3].end, params[4].end>>

\* C12: for every width and height whose product T fits an int, the product
\* 3*width*height has not wrapped when the boundaries are built, the five
\* boundaries are floor(k*T/4) for k = 0..4, each range starts where the
\* one before ends, and 0 <= b1 <= b2 <= b3 <= T.
C12_BoundariesExact ==
    ParamsBuilt =>
        /\ ~MulOverflows(3, width * height)
        /\ \A k \in 0..4 : BuiltBounds[k + 1] = ExactBound(k, width * height)
        /\ \A t \in 2..NumThreads : params[t].start = params[t - 1].end
        /\ \A k \in 1..4 : BuiltBounds[k] <= BuiltBounds[k + 1]
        /\ 0 <= BuiltBounds[2]
        /\ BuiltBounds[4] <= width * height

\* The step is one of worker t: its loop variable advances or it exits.
StepOfWorker(t) ==
    /\ thr[t] = "running"
    /\ idx'[t] # idx[t] \/ thr'[t] = "exited"

\* C13: a step of worker t, bound to [start, end), writes no destination
\* entry other than the one at its loop variable i, which lies in
\* [start, end); it leaves alone the source buffer, the kernel, the range
\* bounds of every worker, every other destination entry, and main and the
\* other workers.
C13_WorkerFrame ==
    [][\A t \in Threads :
          StepOfWorker(t) =>
              /\ image' = image
              /\ kernel' = kernel
              /\ params' = params
              /\ DOMAIN blurred_image' = DOMAIN blurred_image
              /\ \A j \in DOMAIN blurred_image :
                    (j # idx[t] \/ j < params[t].start \/ j >= params[t].end) =>
                        /\ blurred_image'[j] = blurred_image[j]
                        /\ wlog'[j] = wlog[j]
              /\ \A u \in Threads \ {t} : idx'[u] = idx[u] /\ thr'[u] = thr[u]
              /\ UNCHANGED <<pc, radius, width, height, file, heap, created,
                             joined, output>>]_vars
C13_Witness ==
    \E t \in Threads, u \in Threads :
        /\ t # u
        /\ thr[t] = "running"
        /\ thr[u] = "running"
        /\ params[t].start < idx[t]
        /\ idx[t] < params[t].end
        /\ wlog[params[t].start] = <<t>>
        /\ blurred_image[params[t].start] # blurred_image[idx[t]]

\* The input is well formed and the image has fewer than 4 pixels.
FewerThanFour == WellFormed /\ Len(file) < NumThreads
\* Worker t has written destination index i.
HasWritten(t, i) == \E k \in 1..Len(wlog[i]) : wlog[i][k] = t

\* C14: for an image of fewer than 4 pixels a worker whose range is empty
\* never runs an iteration of its loop (it reads and writes nothing) and,
\* once started, exits; each index lies in exactly one range, and after the
\* joins every worker has exited and every destination index has been
\* written.
C14_EmptyRangesHarmless ==
    /\ [](FewerThanFour /\ ParamsBuilt =>
             /\ \A t \in Threads :
                   EmptyRange(t) =>
                       /\ ~ENABLED ApplyBlurPixel(t)
                       /\ idx[t] \in {0, params[t].start}
                       /\ \A i \in DOMAIN wlog : ~HasWritten(t, i)
             /\ \A i \in Pixels(width, height) : Cardinality(OwnersOf(i)) = 1)
    /\ [](FewerThanFour /\ Joined =>
             /\ \A t \in Threads : thr[t] = "exited"
             /\ \A i \in Pixels(width, height) : Len(wlog[i]) = 1)
    /\ \A t \in Threads :
          (FewerThanFour /\ EmptyRange(t) /\ thr[t] = "running") ~> (thr[t] = "exited")
C14_Witness ==
    /\ width * height = 3
    /\ Joined
    /\ EmptyRange(1)
    /\ thr[1] = "exited"
    /\ wlog = [i \in 0..2 |-> <<i + 2>>]

\* The source buffer is allocated and every pixel of it was read from the file.
SourceInitialised ==
    /\ heap.image = "live"
    /\ Len(file) >= width * height
    /\ image = [i \in Pixels(width, height) |-> file[i + 1]]
\* The destination buffer is allocated, width*height pixels long.
DestinationAllocated ==
    /\ heap.blurred = "live"
    /\ DOMAIN blurred_image = Pixels(width, height)

\* C15: once a worker has been created the source buffer is allocated and
\* fully loaded, the destination buffer is allocated and the kernel is
\* built; no buffer is freed before all 4 joins have returned; and no
\* worker runs while either buffer is unallocated or freed.
C15_BuffersReadyWhileWorkersRun ==
    /\ created > 0 =>
          /\ SourceInitialised \/ heap.image = "freed"
          /\ DestinationAllocated \/ heap.blurred = "freed"
          /\ kernel # <<>>
    /\ (heap.image = "freed" \/ heap.blurred = "freed") => joined = NumThreads
    /\ \A t \in Threads :
          thr[t] = "running" => (heap.image = "live" /\ heap.blurred = "live")

\* The offsets the two inner loops of a worker run through.
Offsets == (0 - (Len(kernel) \div 2))..(Len(kernel) \div 2)
\* Worker t is about to process pixel idx[t].
AtPixel(t) == thr[t] = "running" /\ LoopCond(t)
\* The offset <<r, c>> is visited (not skipped) for pixel i.
Visited(i, r, c) == ~Outside(i % width, i \div width, c, r, width, height)

\* C16: for the pixel i a worker is about to process and every offset it
\* visits, the sample's column x+c lies in [0, width), its row y+r in
\* [0, height), the flat index (y+r)*width + (x+c) in [0, width*height) and
\* in the live source buffer, and the kernel indices r+radius and c+radius
\* in [0, 2*radius] and in the kernel.
C16_ReadsInBounds ==
    \A t \in Threads :
        AtPixel(t) =>
            /\ heap.image = "live"
            /\ Len(kernel) = 2 * radius + 1
            /\ \A r \in Offsets, c \in Offsets :
                  Visited(idx[t], r, c) =>
                      /\ 0 <= (idx[t] % width) + c
                      /\ (idx[t] % width) + c < width
                      /\ 0 <= (idx[t] \div width) + r
                      /\ (idx[t] \div width) + r < height
                      /\ 0 <= ((idx[t] \div width) + r) * width + (idx[t] % width) + c
                      /\ ((idx[t] \div width) + r) * width + (idx[t] % width) + c
                             < width * height
                      /\ (((idx[t] \div width) + r) * width + (idx[t] % width) + c)
                             \in DOMAIN image
                      /\ 0 <= r + radius /\ r + radius <= 2 * radius
                      /\ 0 <= c + radius /\ c + radius <= 2 * radius
                      /\ (r + radius + 1) \in DOMAIN kernel
                      /\ (c + radius + 1) \in DOMAIN kernel[r + radius + 1]
C16_Witness ==
    \E t \in Threads :
        /\ AtPixel(t)
        /\ radius = MaxRadius
        /\ width > 1
        /\ height > 1
        /\ idx[t] % width = width - 1
        /\ \E r \in Offsets, c \in Offsets : r < 0 /\ c < 0 /\ Visited(idx[t], r, c)
        /\ \E r \in Offsets : ~Visited(idx[t], r, 1)

\* ------------------------------------------------------------------- C17
\* <<red, green, blue>> of pixel i when the two inner loops are over, the
\* doubles that are then stored to the destination's bytes.
Accumulators(i) == Accumulate(image, kernel, width, height, i, 0, <<0, 0, 0>>)
\* The channel ch values of the samples the loops of pixel i read.
SampledValues(i, ch) ==
    {image[((i \div width) + r) * width + (i % width) + c][ch] :
        <<r, c>> \in {o \in Offsets \X Offsets : Visited(i, o[1], o[2])}}
\* The largest of them.
MaxSampled(i, ch) ==
    CHOOSE m \in SampledValues(i, ch) : \A n \in SampledValues(i, ch) : n <= m

====
